---------------------------- MODULE Spec2Model ----------------------------
(***************************************************************************)
(* Conway's Game of Life with a pannable, zoomable viewport                *)
(* (GameOfLifePygame, src/main.py).                                        *)
(*                                                                         *)
(* The state is the object's fields plus the local mouse_pressed of run()  *)
(* and the position of run() in its loop.  Every pygame event the loop     *)
(* dispatches on is one action; Frame is the part of a loop iteration that *)
(* follows the event loop ("Update simulation").  Drawing reads the state  *)
(* and changes nothing, so it has no action.                               *)
(***************************************************************************)
EXTENDS Integers, FiniteSets, Sequences, TLC

VARIABLES
    width,          \* self.width
    height,         \* self.height
    cell_size,      \* self.cell_size
    grid,           \* self.grid: [Cells -> {0, 1}], indexed <<row, col>>
    screen_width,   \* self.screen_width
    screen_height,  \* self.screen_height
    running,        \* self.running
    paused,         \* self.paused
    generation,     \* self.generation
    fps,            \* self.fps
    offset_x,       \* self.offset_x
    offset_y,       \* self.offset_y
    mouse_pressed,  \* run(): mouse_pressed
    pc,             \* run(): "loop" inside the while loop, "done" after it;
                    \*   "raised" when __init__ raised and run() never began
    steps,          \* history: step() calls since construction / reset / clear
    last_intent     \* history: the last run-state event handled
                    \*   ("none", "toggle", "reset", "clear")

vars == <<width, height, cell_size, grid, screen_width, screen_height,
          running, paused, generation, fps, offset_x, offset_y,
          mouse_pressed, pc, steps, last_intent>>

simVars  == <<grid, generation, paused, steps, last_intent>>
viewVars == <<cell_size, offset_x, offset_y, screen_width, screen_height>>
dimVars  == <<width, height>>

-----------------------------------------------------------------------------
(* Program constants *)

pan_speed     == 32
min_cell_size == 1
max_cell_size == 32
UiBarHeight   == 50
InitialFps    == 10
FpsStep       == 5
MinFps        == 1
MaxFps        == 60

(* Bounds of the exploration *)

MaxGen   == 2   \* step() is explored while generation < MaxGen
MaxCells == 9   \* SpecLife: grids of at most MaxCells cells

\* Grid shapes <<height, width>> given to the constructor.
SimDims  == {<<2, 2>>, <<1, 3>>}
ViewDims == {<<1, 2>>}
\* SpecPattern: grid shapes <<height, width>> the patterns are placed in.
PatternDims == {<<2, 2>>, <<2, 3>>, <<1, 3>>, <<3, 1>>, <<3, 3>>, <<3, 5>>, <<4, 4>>}
\* SpecCtor: width and height given to the constructor, some not positive.
CtorSizes == {-1, 0, 1, 2}
\* cell_size given to the constructor (main() gives 1, the default is 8).
SimCellSizes  == {1, 8}
ViewCellSizes == {1, 31}
\* SpecView: the wheel is explored while it leads to one of these cell sizes
\* (both ends of [min_cell_size, max_cell_size]).
ExploredCellSizes == {1, 2, 3, 31, 32}
\* SpecEvents: the cell size given to the constructor, the cell sizes the
\* wheel is explored to, the fps values the rate keys are explored to, the
\* pointer position and the window size of its events.
EventCellSizes     == {31}
EventZoomSizes     == {31, 32}
EventFps           == {1, 5, 6, 10, 15}
EventMousePosition == <<9, 3>>
EventWindowSize    == <<40, 49>>
\* Pointer positions <<x, y>> of mouse events.
SimMousePositions  == {<<0, 0>>, <<1, 0>>, <<1, 1>>, <<9, 0>>, <<17, 9>>, <<0, 60>>}
ViewMousePositions == {<<0, 0>>, <<9, 3>>}
\* Window sizes <<w, h>> of VIDEORESIZE events.
WindowSizes == {<<40, 49>>, <<20, 90>>}
\* event.y of MOUSEWHEEL events.
WheelYs == {-1, 1}

-----------------------------------------------------------------------------
(* Helpers *)

Max(a, b) == IF a >= b THEN a ELSE b
Min(a, b) == IF a <= b THEN a ELSE b

Cells(h, w) == (0 .. h - 1) \X (0 .. w - 1)

\* Every array np.random.choice([0, 1], size=(h, w), p=...) can return.
RandomGrids(h, w) == [Cells(h, w) -> {0, 1}]

\* np.zeros((w, h), dtype=int): the shape transposed.
ZerosTransposed(h, w) == [rc \in Cells(w, h) |-> 0]

\* np.zeros((h, w), dtype=int)
Zeros(h, w) == [rc \in Cells(h, w) |-> 0]


-----------------------------------------------------------------------------
(* count_neighbors and step *)

\* np.pad(grid, pad_width=1, mode="constant", constant_values=0):
\* the grid at rows 1 .. h and columns 1 .. w of a frame of zeros.
Padded(g, h, w) ==
    [p \in (0 .. h + 1) \X (0 .. w + 1) |->
        IF p[1] \in 1 .. h /\ p[2] \in 1 .. w
        THEN g[<<p[1] - 1, p[2] - 1>>]
        ELSE 0]

\* The (i, j) of the two loops, (1, 1) skipped.
NeighborShifts == ((0 .. 2) \X (0 .. 2)) \ {<<1, 1>>}

RECURSIVE SumShifts(_, _, _, _)
\* neighbors[r, c] after adding padded[i : i + height, j : j + width] for
\* every shift (i, j) of S.
SumShifts(padded, r, c, S) ==
    IF S = {} THEN 0
    ELSE LET ij == CHOOSE x \in S : TRUE
         IN  padded[<<ij[1] + r, ij[2] + c>>]
               + SumShifts(padded, r, c, S \ {ij})

\* A count over a torus: the far edge stands in for the zero frame.
count_neighbors_wrap(g, h, w) ==
    [rc \in Cells(h, w) |->
        SumShifts([p \in (0 .. h + 1) \X (0 .. w + 1) |->
                      g[<<(p[1] - 1) % h, (p[2] - 1) % w>>]],
                  rc[1], rc[2], NeighborShifts)]

\* A count that does not skip (1, 1): every cell counts itself.
count_neighbors_self(g, h, w) ==
    LET padded == Padded(g, h, w)
    IN  [rc \in Cells(h, w) |->
            SumShifts(padded, rc[1], rc[2], (0 .. 2) \X (0 .. 2))]

count_neighbors(g, h, w) ==
    LET padded == Padded(g, h, w)
    IN  [rc \in Cells(h, w) |-> SumShifts(padded, rc[1], rc[2], NeighborShifts)]

\* A step() without its second mask: no DEAD cell comes ALIVE.
step_grid_no_birth(g, h, w) ==
    LET neighbors == count_neighbors(g, h, w)
    IN  [rc \in Cells(h, w) |->
            IF g[rc] = 1 /\ (neighbors[rc] = 2 \/ neighbors[rc] = 3)
            THEN 1 ELSE 0]

\* The new_grid of step(): zeros, then 1 under each of the two masks.
step_grid(g, h, w) ==
    LET neighbors == count_neighbors(g, h, w)
    IN  [rc \in Cells(h, w) |->
            IF \/ (g[rc] = 1 /\ (neighbors[rc] = 2 \/ neighbors[rc] = 3))
               \/ (g[rc] = 0 /\ neighbors[rc] = 3)
            THEN 1 ELSE 0]

-----------------------------------------------------------------------------
(* clamp_offsets, zoom_at, handle_mouse *)

\* A clamp to the grid's extent, the window's size forgotten.
clamp_offsets_to_grid(w, h, cs, ox, oy, sw, sh) ==
    [x |-> Max(0, Min(ox, w * cs)), y |-> Max(0, Min(oy, h * cs))]

\* A clamp that pulls an offset past the maximum back by the maximum instead
\* of setting it to the maximum.
clamp_offsets_pull(w, h, cs, ox, oy, sw, sh) ==
    LET max_x == Max(0, w * cs - sw)
        max_y == Max(0, h * cs - (sh - UiBarHeight))
    IN  [x |-> IF ox > max_x THEN ox - max_x ELSE Max(0, ox),
         y |-> IF oy > max_y THEN oy - max_y ELSE Max(0, oy)]

\* clamp_offsets(): the offsets it leaves, from the offsets it finds.
clamp_offsets(w, h, cs, ox, oy, sw, sh) ==
    LET total_w == w * cs
        total_h == h * cs
        max_x   == Max(0, total_w - sw)
        max_y   == Max(0, total_h - (sh - UiBarHeight))
    IN  [x |-> Max(0, Min(ox, max_x)), y |-> Max(0, Min(oy, max_y))]

\* int(): the integer part, rounding toward zero (den > 0).
Trunc(num, den) ==
    IF num >= 0 THEN num \div den ELSE -((-num) \div den)

Sign(k) == IF k > 0 THEN 1 ELSE IF k < 0 THEN -1 ELSE 0

IsPowerOfTwo(n) == n \in {1, 2, 4, 8, 16, 32, 64}

\* The values int(((f + o) / old) * new - f) can take in double arithmetic,
\* a == f + o, old > 0.  The exact value is (a * new - f * old) / old.  When
\* it is not an integer it is at least 1/old away from one, far more than
\* the rounding error, and int() gives its exact integer part.  When it is
\* an integer k and a / old is exact in binary (old divides a, or old is a
\* power of two) every operation is exact.  Otherwise the rounding of a / old
\* can leave the result a hair beside k, and int() then gives k or the
\* integer next to k toward zero.  For new = old +- 1 (the only calls run()
\* makes) old and new are coprime, so an integer a * new / old means old
\* divides a: the result is exact.
FloatInt(a, old, new, f) ==
    LET exact == Trunc(a * new - f * old, old)
    IN  IF /\ (a * new) % old = 0
           /\ a % old # 0
           /\ ~IsPowerOfTwo(old)
        THEN {exact, exact - Sign(exact)}
        ELSE {exact}

\* The offsets rounded to the nearest integer (halves up) where zoom_at
\* takes the integer part.
zoom_raw_round(cs, ox, oy, fx, fy, new) ==
    {[x |-> (2 * ((fx + ox) * new - fx * cs) + cs) \div (2 * cs),
      y |-> (2 * ((fy + oy) * new - fy * cs) + cs) \div (2 * cs)]}

\* The grid position under the focus taken after self.cell_size is assigned:
\* the offsets come out as they were.
zoom_raw_late(cs, ox, oy, fx, fy, new) ==
    {[x |-> rx, y |-> ry] : rx \in FloatInt(fx + ox, new, new, fx),
                            ry \in FloatInt(fy + oy, new, new, fy)}

\* zoom_at(focus_x, focus_y, new_cell_size), cell_size > 0: the offsets it
\* assigns before it calls clamp_offsets.
zoom_raw(cs, ox, oy, fx, fy, new) ==
    {[x |-> rx, y |-> ry] : rx \in FloatInt(fx + ox, cs, new, fx),
                            ry \in FloatInt(fy + oy, cs, new, fy)}

\* zoom_at(focus_x, focus_y, new_cell_size), cell_size > 0: the viewports
\* [cell_size, offset_x, offset_y] it can leave.
zoom_at(w, h, cs, ox, oy, sw, sh, fx, fy, new) ==
    IF new = cs
    THEN {[cell_size |-> cs, offset_x |-> ox, offset_y |-> oy]}
    ELSE {[cell_size |-> new, offset_x |-> c.x, offset_y |-> c.y] :
            c \in {clamp_offsets(w, h, new, raw.x, raw.y, sw, sh) :
                      raw \in zoom_raw(cs, ox, oy, fx, fy, new)}}

\* The (screen_x, screen_y) draw_grid draws the cell of row r, column c at.
grid_to_screen(cs, ox, oy, r, c) ==
    [x |-> c * cs - ox, y |-> r * cs - oy]

\* A click mapping with the offset's sign turned.
screen_to_grid_minus(cs, ox, oy, x, y) ==
    [x |-> (x - ox) \div cs, y |-> (y - oy) \div cs]

\* The (grid_x, grid_y) handle_mouse computes for the position (x, y).
screen_to_grid(cs, ox, oy, x, y) ==
    [x |-> (x + ox) \div cs, y |-> (y + oy) \div cs]

\* A handle_mouse that paints the cell ALIVE instead of flipping it.
handle_mouse_paint(g, w, h, cs, ox, oy, sh, x, y) ==
    IF y < sh - UiBarHeight
    THEN LET gp == screen_to_grid(cs, ox, oy, x, y)
         IN  IF 0 <= gp.x /\ gp.x < w /\ 0 <= gp.y /\ gp.y < h
             THEN [g EXCEPT ![<<gp.y, gp.x>>] = 1]
             ELSE g
    ELSE g

\* A handle_mouse that forgets the control bar: any position whose
\* coordinate is on the grid toggles.
handle_mouse_no_bar(g, w, h, cs, ox, oy, sh, x, y) ==
    LET gp == screen_to_grid(cs, ox, oy, x, y)
    IN  IF 0 <= gp.x /\ gp.x < w /\ 0 <= gp.y /\ gp.y < h
        THEN [g EXCEPT ![<<gp.y, gp.x>>] = 1 - g[<<gp.y, gp.x>>]]
        ELSE g

\* handle_mouse(pos): the grid it leaves.
handle_mouse(g, w, h, cs, ox, oy, sh, x, y) ==
    IF y < sh - UiBarHeight
    THEN LET gp == screen_to_grid(cs, ox, oy, x, y)
         IN  IF 0 <= gp.x /\ gp.x < w /\ 0 <= gp.y /\ gp.y < h
             THEN [g EXCEPT ![<<gp.y, gp.x>>] = 1 - g[<<gp.y, gp.x>>]]
             ELSE g
    ELSE g

-----------------------------------------------------------------------------
(* Construction *)

\* The object __init__(width=w, height=h, cell_size=cs) builds with the
\* random grid g, at the top of run().
Construct(w, h, cs, g) ==
    /\ width = w
    /\ height = h
    /\ cell_size = cs
    /\ grid = g
    /\ screen_width = w * cs
    /\ screen_height = h * cs + UiBarHeight
    /\ running = TRUE
    /\ paused = TRUE
    /\ generation = 0
    /\ fps = InitialFps
    /\ offset_x = 0
    /\ offset_y = 0
    /\ mouse_pressed = FALSE
    /\ pc = "loop"
    /\ steps = 0
    /\ last_intent = "none"

\* np.random.choice([0, 1], size=(h, w), ...) returns an array (an empty one
\* when h or w is 0) unless a dimension is negative, when it raises
\* ValueError.
shape_accepted(h, w) == h >= 0 /\ w >= 0

\* __init__(width=w, height=h, cell_size=cs) left by the exception of
\* np.random.choice: width, height and cell_size are assigned, no grid and
\* no other field is, and run() is never entered.
ConstructRaised(w, h, cs) ==
    /\ width = w
    /\ height = h
    /\ cell_size = cs
    /\ grid = <<>>
    /\ screen_width = 0
    /\ screen_height = 0
    /\ running = FALSE
    /\ paused = FALSE
    /\ generation = 0
    /\ fps = 0
    /\ offset_x = 0
    /\ offset_y = 0
    /\ mouse_pressed = FALSE
    /\ pc = "raised"
    /\ steps = 0
    /\ last_intent = "none"

-----------------------------------------------------------------------------
(* Methods that change the state *)

\* A step() that forgets the counter.
step_uncounted ==
    /\ grid' = step_grid(grid, height, width)
    /\ steps' = steps + 1
    /\ UNCHANGED <<generation, paused, last_intent>>

\* step()
step ==
    /\ grid' = step_grid(grid, height, width)
    /\ generation' = generation + 1
    /\ steps' = steps + 1
    /\ UNCHANGED <<paused, last_intent>>

\* reset()
reset ==
    /\ grid' \in RandomGrids(height, width)
    /\ generation' = 0
    /\ paused' = TRUE
    /\ steps' = 0
    /\ last_intent' = "reset"

\* A clear() that leaves the run state alone.
clear_keeps_running ==
    /\ grid' = Zeros(height, width)
    /\ generation' = 0
    /\ steps' = 0
    /\ last_intent' = "clear"
    /\ UNCHANGED paused

\* clear()
clear ==
    /\ grid' = Zeros(height, width)
    /\ generation' = 0
    /\ paused' = TRUE
    /\ steps' = 0
    /\ last_intent' = "clear"

-----------------------------------------------------------------------------
(* run(): one action per event type and key, and the rest of an iteration *)

\* pygame.QUIT
Quit ==
    /\ pc = "loop"
    /\ running' = FALSE
    /\ UNCHANGED <<dimVars, simVars, viewVars, fps, mouse_pressed, pc>>

\* K_SPACE
KeySpace ==
    /\ pc = "loop"
    /\ paused' = ~paused
    /\ last_intent' = "toggle"
    /\ UNCHANGED <<dimVars, grid, generation, steps, viewVars, fps, running,
                   mouse_pressed, pc>>

\* K_r
KeyR ==
    /\ pc = "loop"
    /\ reset
    /\ UNCHANGED <<dimVars, viewVars, fps, running, mouse_pressed, pc>>

\* A K_c that also brings the viewport back to the grid's origin.
KeyCRecentres ==
    /\ pc = "loop"
    /\ clear
    /\ offset_x' = 0
    /\ offset_y' = 0
    /\ UNCHANGED <<dimVars, cell_size, screen_width, screen_height, fps,
                   running, mouse_pressed, pc>>

\* K_c
KeyC ==
    /\ pc = "loop"
    /\ clear
    /\ UNCHANGED <<dimVars, viewVars, fps, running, mouse_pressed, pc>>

\* K_PLUS, K_EQUALS
KeyPlus ==
    /\ pc = "loop"
    /\ fps' = Min(MaxFps, fps + FpsStep)
    /\ UNCHANGED <<dimVars, simVars, viewVars, running, mouse_pressed, pc>>

\* K_MINUS
KeyMinus ==
    /\ pc = "loop"
    /\ fps' = Max(MinFps, fps - FpsStep)
    /\ UNCHANGED <<dimVars, simVars, viewVars, running, mouse_pressed, pc>>

\* A K_LEFT that does not stop at 0.
KeyLeftUnfloored ==
    /\ pc = "loop"
    /\ offset_x' = offset_x - pan_speed
    /\ UNCHANGED <<dimVars, simVars, cell_size, offset_y, screen_width,
                   screen_height, fps, running, mouse_pressed, pc>>

\* K_LEFT
KeyLeft ==
    /\ pc = "loop"
    /\ offset_x' = Max(0, offset_x - pan_speed)
    /\ UNCHANGED <<dimVars, simVars, cell_size, offset_y, screen_width,
                   screen_height, fps, running, mouse_pressed, pc>>

\* K_RIGHT
KeyRight ==
    /\ pc = "loop"
    /\ LET c == clamp_offsets(width, height, cell_size, offset_x + pan_speed,
                              offset_y, screen_width, screen_height)
       IN  offset_x' = c.x /\ offset_y' = c.y
    /\ UNCHANGED <<dimVars, simVars, cell_size, screen_width, screen_height,
                   fps, running, mouse_pressed, pc>>

\* K_UP
KeyUp ==
    /\ pc = "loop"
    /\ offset_y' = Max(0, offset_y - pan_speed)
    /\ UNCHANGED <<dimVars, simVars, cell_size, offset_x, screen_width,
                   screen_height, fps, running, mouse_pressed, pc>>

\* K_DOWN
KeyDown ==
    /\ pc = "loop"
    /\ LET c == clamp_offsets(width, height, cell_size, offset_x,
                              offset_y + pan_speed, screen_width, screen_height)
       IN  offset_x' = c.x /\ offset_y' = c.y
    /\ UNCHANGED <<dimVars, simVars, cell_size, screen_width, screen_height,
                   fps, running, mouse_pressed, pc>>

\* MOUSEBUTTONDOWN at pos
MouseButtonDown(pos) ==
    /\ pc = "loop"
    /\ mouse_pressed' = TRUE
    /\ grid' = handle_mouse(grid, width, height, cell_size, offset_x, offset_y,
                            screen_height, pos[1], pos[2])
    /\ UNCHANGED <<dimVars, generation, paused, steps, last_intent, viewVars,
                   fps, running, pc>>

\* A request that is not clamped.
wheel_size_unclamped(cs, y) == IF y > 0 THEN cs + 1 ELSE cs - 1

\* The new_size the MOUSEWHEEL branch asks zoom_at for.
wheel_size(cs, y) ==
    IF y > 0 THEN Min(max_cell_size, cs + 1) ELSE Max(min_cell_size, cs - 1)

\* MOUSEWHEEL with event.y = y while the pointer is at pos
MouseWheel(y, pos) ==
    /\ pc = "loop"
    /\ \E v \in zoom_at(width, height, cell_size, offset_x, offset_y,
                        screen_width, screen_height, pos[1], pos[2],
                        wheel_size(cell_size, y)) :
          /\ cell_size' = v.cell_size
          /\ offset_x' = v.offset_x
          /\ offset_y' = v.offset_y
    /\ UNCHANGED <<dimVars, simVars, screen_width, screen_height, fps,
                   running, mouse_pressed, pc>>

\* VIDEORESIZE to size = <<event.w, event.h>>
VideoResize(size) ==
    /\ pc = "loop"
    /\ screen_width' = size[1]
    /\ screen_height' = size[2]
    /\ LET c == clamp_offsets(width, height, cell_size, offset_x, offset_y,
                              size[1], size[2])
       IN  offset_x' = c.x /\ offset_y' = c.y
    /\ UNCHANGED <<dimVars, simVars, cell_size, fps, running, mouse_pressed,
                   pc>>

\* MOUSEBUTTONUP
MouseButtonUp ==
    /\ pc = "loop"
    /\ mouse_pressed' = FALSE
    /\ UNCHANGED <<dimVars, simVars, viewVars, fps, running, pc>>

\* MOUSEMOTION at pos (ignored unless mouse_pressed)
MouseMotion(pos) ==
    /\ pc = "loop"
    /\ grid' = IF mouse_pressed
               THEN handle_mouse(grid, width, height, cell_size, offset_x,
                                 offset_y, screen_height, pos[1], pos[2])
               ELSE grid
    /\ UNCHANGED <<dimVars, generation, paused, steps, last_intent, viewVars,
                   fps, running, mouse_pressed, pc>>

\* An iteration that steps whether paused or not.
FrameAlways ==
    /\ pc = "loop"
    /\ generation < MaxGen /\ step
    /\ pc' = IF running THEN "loop" ELSE "done"
    /\ UNCHANGED <<dimVars, viewVars, fps, running, mouse_pressed>>

\* The rest of a loop iteration, once its events are handled: step() unless
\* paused, then the test of the while loop.  (draw_grid, draw_ui and
\* clock.tick change nothing of the state.)
Frame ==
    /\ pc = "loop"
    /\ IF ~paused
       THEN generation < MaxGen /\ step
       ELSE UNCHANGED simVars
    /\ pc' = IF running THEN "loop" ELSE "done"
    /\ UNCHANGED <<dimVars, viewVars, fps, running, mouse_pressed>>

-----------------------------------------------------------------------------
(* Specifications *)

\* The whole loop.
Init ==
    \E d \in SimDims \cup ViewDims, cs \in SimCellSizes \cup ViewCellSizes :
        \E g \in RandomGrids(d[1], d[2]) : Construct(d[2], d[1], cs, g)

MousePositions == SimMousePositions \cup ViewMousePositions

Next ==
    \/ Quit
    \/ KeySpace
    \/ KeyR
    \/ KeyC
    \/ KeyPlus
    \/ KeyMinus
    \/ KeyLeft
    \/ KeyRight
    \/ KeyUp
    \/ KeyDown
    \/ \E pos \in MousePositions : MouseButtonDown(pos)
    \/ \E y \in WheelYs, pos \in MousePositions : MouseWheel(y, pos)
    \/ \E size \in WindowSizes : VideoResize(size)
    \/ MouseButtonUp
    \/ \E pos \in MousePositions : MouseMotion(pos)
    \/ Frame

Spec == Init /\ [][Next]_vars

\* The simulation and the run state: every event but those that move the
\* viewport, which stays as constructed.
InitSim ==
    \E d \in SimDims, cs \in SimCellSizes :
        \E g \in RandomGrids(d[1], d[2]) : Construct(d[2], d[1], cs, g)

NextSim ==
    \/ Quit
    \/ KeySpace
    \/ KeyR
    \/ KeyC
    \/ KeyPlus
    \/ KeyMinus
    \/ \E pos \in SimMousePositions : MouseButtonDown(pos)
    \/ MouseButtonUp
    \/ \E pos \in SimMousePositions : MouseMotion(pos)
    \/ Frame

SpecSim == InitSim /\ [][NextSim]_vars

\* The viewport: pan, zoom and resize over every cell size, with the events
\* that change the grid and the run state.
InitView ==
    \E d \in ViewDims, cs \in ViewCellSizes :
        \E g \in RandomGrids(d[1], d[2]) : Construct(d[2], d[1], cs, g)

NextView ==
    \/ KeySpace
    \/ KeyR
    \/ KeyC
    \/ KeyLeft
    \/ KeyRight
    \/ KeyUp
    \/ KeyDown
    \/ \E pos \in ViewMousePositions : MouseButtonDown(pos)
    \/ \E y \in WheelYs, pos \in ViewMousePositions :
          /\ wheel_size(cell_size, y) \in ExploredCellSizes
          /\ MouseWheel(y, pos)
    \/ \E size \in WindowSizes : VideoResize(size)
    \/ Frame

SpecView == InitView /\ [][NextView]_vars

\* Pan, zoom and resize alone, the wheel over every cell size, on a grid
\* constructed with random_density = 0.
InitZoom ==
    \E d \in ViewDims, cs \in ViewCellSizes :
        Construct(d[2], d[1], cs, Zeros(d[1], d[2]))

NextZoom ==
    \/ KeyLeft
    \/ KeyRight
    \/ KeyUp
    \/ KeyDown
    \/ \E y \in WheelYs, pos \in ViewMousePositions : MouseWheel(y, pos)
    \/ \E size \in WindowSizes : VideoResize(size)

SpecZoom == InitZoom /\ [][NextZoom]_vars

\* The generation rule on every grid of at most MaxCells cells.
LifeDims ==
    {d \in (1 .. MaxCells) \X (1 .. MaxCells) : d[1] * d[2] <= MaxCells}

InitLife ==
    \E d \in LifeDims :
        \E g \in RandomGrids(d[1], d[2]) : Construct(d[2], d[1], 1, g)

NextLife ==
    \/ KeySpace
    \/ Frame

SpecLife == InitLife /\ [][NextLife]_vars

\* The generation rule on grids that hold one pattern: a 2 x 2 block or a
\* line of three cells, at every position of every shape of PatternDims.
GridOf(h, w, S) == [rc \in Cells(h, w) |-> IF rc \in S THEN 1 ELSE 0]

AliveCells(g) == {rc \in DOMAIN g : g[rc] = 1}

\* The block whose top left cell is <<r, c>>.
BlockCells(r, c) == {<<r, c>>, <<r, c + 1>>, <<r + 1, c>>, <<r + 1, c + 1>>}

\* The line of three cells centred on <<r, c>>, along its row or its column.
LineCells(r, c, o) ==
    IF o = "row"
    THEN {<<r, c - 1>>, <<r, c>>, <<r, c + 1>>}
    ELSE {<<r - 1, c>>, <<r, c>>, <<r + 1, c>>}

PatternGrids(h, w) ==
    {GridOf(h, w, BlockCells(rc[1], rc[2])) :
        rc \in {x \in Cells(h, w) : BlockCells(x[1], x[2]) \subseteq Cells(h, w)}}
    \cup
    {GridOf(h, w, LineCells(rco[1], rco[2], rco[3])) :
        rco \in {x \in (0 .. h - 1) \X (0 .. w - 1) \X {"row", "col"} :
                    LineCells(x[1], x[2], x[3]) \subseteq Cells(h, w)}}

InitPattern ==
    \E d \in PatternDims :
        \E g \in PatternGrids(d[1], d[2]) : Construct(d[2], d[1], 1, g)

NextPattern ==
    \/ KeySpace
    \/ Frame

SpecPattern == InitPattern /\ [][NextPattern]_vars

\* Construction with any width and height of CtorSizes, and the loop on
\* what it builds.
InitCtor ==
    \E h \in CtorSizes, w \in CtorSizes, cs \in SimCellSizes :
        IF shape_accepted(h, w)
        THEN \E g \in RandomGrids(h, w) : Construct(w, h, cs, g)
        ELSE ConstructRaised(w, h, cs)

NextCtor ==
    \/ KeySpace
    \/ KeyR
    \/ KeyC
    \/ KeyDown
    \/ \E pos \in ViewMousePositions : MouseButtonDown(pos)
    \/ \E size \in WindowSizes : VideoResize(size)
    \/ Frame

SpecCtor == InitCtor /\ [][NextCtor]_vars

\* Every event of the loop together, each on few inputs.
InitEvents ==
    \E d \in ViewDims, cs \in EventCellSizes :
        \E g \in RandomGrids(d[1], d[2]) : Construct(d[2], d[1], cs, g)

NextEvents ==
    \/ Quit
    \/ KeySpace
    \/ KeyR
    \/ KeyC
    \/ KeyPlus /\ fps' \in EventFps
    \/ KeyMinus /\ fps' \in EventFps
    \/ KeyLeft
    \/ KeyRight
    \/ KeyUp
    \/ KeyDown
    \/ MouseButtonDown(EventMousePosition)
    \/ \E y \in WheelYs :
          /\ wheel_size(cell_size, y) \in EventZoomSizes
          /\ MouseWheel(y, EventMousePosition)
    \/ VideoResize(EventWindowSize)
    \/ MouseButtonUp
    \/ MouseMotion(EventMousePosition)
    \/ Frame

SpecEvents == InitEvents /\ [][NextEvents]_vars

-----------------------------------------------------------------------------
(* C1: the generation rule *)

\* The positions of the grid among the (up to) 8 next to <<r, c>>.
MooreNeighbours(h, w, rc) ==
    {n \in Cells(h, w) :
        /\ n # rc
        /\ n[1] - rc[1] \in -1 .. 1
        /\ n[2] - rc[2] \in -1 .. 1}

\* The number of ALIVE cells among them: positions outside the grid add
\* nothing.
MooreCount(g, h, w, rc) ==
    Cardinality({n \in MooreNeighbours(h, w, rc) : g[n] = 1})

\* Conway's rule for the cell rc of the grid g.
AliveNext(g, h, w, rc) ==
    \/ g[rc] = 1 /\ MooreCount(g, h, w, rc) \in {2, 3}
    \/ g[rc] = 0 /\ MooreCount(g, h, w, rc) = 3

\* C1: whenever step() runs, each cell of the new grid is ALIVE iff it was
\* ALIVE with 2 or 3 ALIVE Moore neighbours or DEAD with exactly 3, the
\* neighbours counted in the grid before the step and positions outside the
\* grid counting as DEAD; interior, edge and corner cells alike.
C1_StepRule ==
    [][steps' = steps + 1 =>
         \A rc \in Cells(height, width) :
             (grid'[rc] = 1) <=> AliveNext(grid, height, width, rc)]_vars

\* A 3 x 3 grid after a step, with an ALIVE corner, edge and interior cell.
C1_Witness ==
    /\ steps >= 1
    /\ height = 3 /\ width = 3
    /\ grid[<<0, 0>>] = 1 /\ grid[<<0, 1>>] = 1 /\ grid[<<1, 1>>] = 1

-----------------------------------------------------------------------------
(* C2: the offsets stay in the clamp range *)

\* The largest offsets clamp_offsets allows: the grid's extent in pixels less
\* the viewport's, the viewport being the window above the control bar.
MaxOffsetX == Max(0, width * cell_size - screen_width)
MaxOffsetY == Max(0, height * cell_size - (screen_height - UiBarHeight))

\* C2: in every state reached by pan, zoom, resize, toggle, reset, clear and
\* step events, offset_x is in [0, max(0, width*cell_size - screen_width)]
\* and offset_y in [0, max(0, height*cell_size - (screen_height - 50))]; an
\* offset is 0 on an axis where the whole grid fits in the viewport.
C2_OffsetsInRange ==
    /\ 0 <= offset_x /\ offset_x <= MaxOffsetX
    /\ 0 <= offset_y /\ offset_y <= MaxOffsetY
    /\ width * cell_size <= screen_width => offset_x = 0
    /\ height * cell_size <= screen_height - UiBarHeight => offset_y = 0

\* After steps and toggles: panned to the right end on x, strictly inside
\* the range on y.
C2_Witness ==
    /\ steps > 0 /\ mouse_pressed
    /\ offset_x > 0 /\ offset_x = MaxOffsetX
    /\ offset_y > 0 /\ offset_y < MaxOffsetY

-----------------------------------------------------------------------------
(* C8: the viewport and the grid's extent *)

\* C8: in every state reached by pan, zoom and resize events (the window
\* resized to any size, also to a height below the 50-pixel control bar) the
\* offsets leave the viewport on the grid: offset_x < width*cell_size and
\* offset_y < height*cell_size.
C8_ViewportOnGrid ==
    /\ offset_x < width * cell_size
    /\ offset_y < height * cell_size

-----------------------------------------------------------------------------
(* C9: the grid's shape and values *)

GridShapeOK ==
    /\ DOMAIN grid = Cells(height, width)
    /\ \A rc \in DOMAIN grid : grid[rc] \in {0, 1}

\* C9: across step, toggle, reset, clear, pan, zoom and resize, the grid
\* keeps the height and width given at construction (self.height and
\* self.width never change and the grid has exactly that many rows and
\* columns) and every cell is DEAD (0) or ALIVE (1).
C9_GridShape ==
    [][/\ GridShapeOK
       /\ GridShapeOK'
       /\ height' = height
       /\ width' = width]_vars

\* A grid that was cleared, painted and stepped, seen through a moved
\* viewport.
C9_Witness ==
    /\ last_intent = "toggle" /\ steps > 0 /\ mouse_pressed
    /\ offset_x > 0 /\ cell_size = 3
    /\ GridShapeOK

-----------------------------------------------------------------------------
(* C10: the toggle is an involution *)

\* Pointer positions the toggle is tried at.
TogglePositions == (0 .. 3) \X (0 .. 3) \cup ViewMousePositions \cup {<<31, 0>>}

\* The position <<x, y>> is above the control bar and maps to a cell.
MapsToCell(x, y) ==
    LET gp == screen_to_grid(cell_size, offset_x, offset_y, x, y)
    IN  /\ y < screen_height - UiBarHeight
        /\ 0 <= gp.x /\ gp.x < width
        /\ 0 <= gp.y /\ gp.y < height

Toggled(g, x, y) ==
    handle_mouse(g, width, height, cell_size, offset_x, offset_y,
                 screen_height, x, y)

\* C10: for every position that maps to an in-bounds cell, one toggle
\* changes that cell and no other, and a second toggle at the same position
\* (the viewport and the grid untouched in between) gives back the grid.
C10_ToggleInvolution ==
    \A pos \in TogglePositions :
        MapsToCell(pos[1], pos[2]) =>
            LET gp   == screen_to_grid(cell_size, offset_x, offset_y,
                                       pos[1], pos[2])
                once == Toggled(grid, pos[1], pos[2])
            IN  /\ DOMAIN once = DOMAIN grid
                /\ \A rc \in DOMAIN grid :
                       (once[rc] # grid[rc]) <=> (rc = <<gp.y, gp.x>>)
                /\ Toggled(once, pos[1], pos[2]) = grid

\* A painted grid under a panned viewport, where some position maps to the
\* second cell, ALIVE.
C10_Witness ==
    /\ mouse_pressed /\ offset_x > 0
    /\ \E pos \in TogglePositions :
          /\ MapsToCell(pos[1], pos[2])
          /\ screen_to_grid(cell_size, offset_x, offset_y, pos[1], pos[2]).x = 1
          /\ grid[<<0, 1>>] = 1

-----------------------------------------------------------------------------
(* C3: the grid coordinate under the focus of a zoom *)

\* Focus pixels zoom_at is tried at.
FocusPixels == ViewMousePositions \cup {<<1, 0>>, <<19, 39>>, <<30, 20>>}

\* The pixel is in the part of the window that shows the grid.
InGridArea(f) ==
    /\ 0 <= f[1] /\ f[1] < screen_width
    /\ 0 <= f[2] /\ f[2] < screen_height - UiBarHeight

Near(a, b) == a - b \in -1 .. 1

\* The viewport zoom_at(f, n) leaves when it computes the offsets raw.
Zoomed(n, raw) ==
    LET c == clamp_offsets(width, height, n, raw.x, raw.y,
                           screen_width, screen_height)
    IN  [cell_size |-> n, offset_x |-> c.x, offset_y |-> c.y]

ZoomAtHere(f, n) ==
    zoom_at(width, height, cell_size, offset_x, offset_y, screen_width,
            screen_height, f[1], f[2], n)

\* C3 as stated: for every focus pixel in the grid area and every new cell
\* size in [min_cell_size, max_cell_size], the grid coordinate under the
\* focus before zoom_at and the one after it differ by at most 1 on each
\* axis.
C3_FocusStable ==
    \A f \in FocusPixels, n \in min_cell_size .. max_cell_size :
        InGridArea(f) =>
            \A v \in ZoomAtHere(f, n) :
                LET before == screen_to_grid(cell_size, offset_x, offset_y,
                                             f[1], f[2])
                    after  == screen_to_grid(v.cell_size, v.offset_x,
                                             v.offset_y, f[1], f[2])
                IN  Near(before.x, after.x) /\ Near(before.y, after.y)

\* C3 as amended: the same, on each axis on which clamp_offsets leaves the
\* offset zoom_at computed as it is; where clamp_offsets moves it the
\* coordinate under the focus may change by more.
C3_FocusStableUnclamped ==
    \A f \in FocusPixels, n \in min_cell_size .. max_cell_size :
        (InGridArea(f) /\ n # cell_size) =>
            \A raw \in zoom_raw(cell_size, offset_x, offset_y, f[1], f[2], n) :
                LET v      == Zoomed(n, raw)
                    before == screen_to_grid(cell_size, offset_x, offset_y,
                                             f[1], f[2])
                    after  == screen_to_grid(v.cell_size, v.offset_x,
                                             v.offset_y, f[1], f[2])
                IN  /\ v \in ZoomAtHere(f, n)
                    /\ v.offset_x = raw.x => Near(before.x, after.x)
                    /\ v.offset_y = raw.y => Near(before.y, after.y)

\* A zoomed and panned viewport where a zoom to another cell size keeps
\* both offsets it computes, and moves offset_x.
C3_Witness ==
    /\ cell_size = 32 /\ offset_x > 0
    /\ \E f \in FocusPixels, n \in min_cell_size .. max_cell_size :
          /\ InGridArea(f) /\ n # cell_size
          /\ \E raw \in zoom_raw(cell_size, offset_x, offset_y, f[1], f[2], n) :
                /\ raw.x > 0 /\ raw.x # offset_x
                /\ Zoomed(n, raw).offset_x = raw.x
                /\ Zoomed(n, raw).offset_y = raw.y

-----------------------------------------------------------------------------
(* C7: the cell size after zoom_at *)

\* new_cell_size values zoom_at is tried with, some outside
\* [min_cell_size, max_cell_size].
ZoomRequests == {0, 1, 2, 16, 31, 32, 33, 40}

Clamped(n, lo, hi) == Max(lo, Min(hi, n))

\* C7 as stated: zoom_at called with any integer new_cell_size sets
\* cell_size to new_cell_size clamped into [min_cell_size, max_cell_size].
C7_ZoomAtClamps ==
    \A f \in FocusPixels, n \in ZoomRequests :
        \A v \in ZoomAtHere(f, n) :
            v.cell_size = Clamped(n, min_cell_size, max_cell_size)

\* C7 as amended: zoom_at sets cell_size to the new_cell_size it is given,
\* clamping nothing; the MOUSEWHEEL handler asks it for cell_size + 1 or
\* cell_size - 1 clamped into [min_cell_size, max_cell_size], so that a
\* cell_size constructed in that range is in it after every zoom_at call
\* run() makes.
C7_WheelClamps ==
    /\ cell_size \in min_cell_size .. max_cell_size
    /\ \A y \in WheelYs :
          wheel_size(cell_size, y) =
              Clamped(IF y > 0 THEN cell_size + 1 ELSE cell_size - 1,
                      min_cell_size, max_cell_size)
    /\ \A f \in FocusPixels, n \in ZoomRequests :
          \A v \in ZoomAtHere(f, n) : v.cell_size = n

\* Zoomed in to the largest cell size, where a further wheel-up asks for it
\* again.
C7_Witness ==
    /\ cell_size = max_cell_size
    /\ offset_x > 0
    /\ wheel_size(cell_size, 1) = cell_size

-----------------------------------------------------------------------------
(* C4: reset() and clear() *)

\* C4: from any state, running or paused, at any generation, reset() and
\* clear() leave paused true and generation 0; clear() also leaves every
\* cell DEAD and the grid's dimensions as they were.
C4_ResetClear ==
    [][/\ (KeyR \/ KeyC) => (paused' /\ generation' = 0)
       /\ KeyC => /\ \A rc \in Cells(height, width) : grid'[rc] = 0
                  /\ DOMAIN grid' = DOMAIN grid
                  /\ height' = height /\ width' = width]_vars

\* Just cleared, the loop about to end: K_c came after QUIT in the same
\* batch of events, and nothing has touched the grid since.
C4_Witness ==
    /\ last_intent = "clear"
    /\ paused /\ generation = 0
    /\ \A rc \in Cells(height, width) : grid[rc] = 0
    /\ ~running /\ pc = "loop"

-----------------------------------------------------------------------------
(* C5: step() only while running *)

\* C5: the loop starts paused, and an iteration applies step() (the rule to
\* the grid, one more generation) only if paused is false once its events
\* are handled: never before the first pause toggle, and never when the
\* last run-state event was reset or clear.
C5_StepOnlyRunning ==
    [][/\ last_intent \in {"none", "reset", "clear"} => paused
       /\ (steps' # steps /\ steps' # 0) =>
              /\ ~paused
              /\ last_intent = "toggle"
              /\ steps' = steps + 1
              /\ grid' = step_grid(grid, height, width)
       /\ (generation' > generation) => (~paused /\ last_intent = "toggle")
       /\ (Frame /\ paused) => UNCHANGED <<grid, generation>>]_vars

\* Running, two generations on.
C5_Witness ==
    /\ ~paused /\ last_intent = "toggle"
    /\ generation = 2 /\ steps = 2

-----------------------------------------------------------------------------
(* C6: the generation counter *)

\* C6: step() adds exactly 1 to generation and nothing else raises it; it
\* never goes down but to 0, by reset() or clear(); so it equals the number
\* of steps since the last of these (or since construction).
C6_GenerationCounts ==
    [][/\ generation = steps
       /\ generation' = steps'
       /\ (generation' # generation) =>
              \/ generation' = generation + 1 /\ Frame /\ ~paused
              \/ generation' = 0 /\ (KeyR \/ KeyC)
       /\ (Frame /\ ~paused) => generation' = generation + 1]_vars

\* Two steps since a reset.
C6_Witness ==
    /\ last_intent = "toggle" /\ generation = 2 /\ steps = 2
    /\ mouse_pressed

-----------------------------------------------------------------------------
(* C11: a toggle outside the grid or inside the control bar *)

\* Pointer positions the ignored toggle is tried at: left of the window, far
\* right, and rows 31 and 48 (inside the control bar of a small window).
IgnoredPositions ==
    TogglePositions \cup {<<-1, 0>>, <<70, 0>>, <<0, 31>>, <<0, 48>>}

\* The position is inside the bottom 50-pixel control bar.
InControlBar(y) == y >= screen_height - UiBarHeight

\* The coordinate the position maps to is outside [0,height) x [0,width).
MapsOutside(x, y) ==
    LET gp == screen_to_grid(cell_size, offset_x, offset_y, x, y)
    IN  ~(0 <= gp.x /\ gp.x < width /\ 0 <= gp.y /\ gp.y < height)

\* C11: a toggle whose position maps to a coordinate outside
\* [0,height) x [0,width), or lies inside the control bar, leaves the grid as
\* it is (handle_mouse has a value there: no error), and the MOUSEBUTTONDOWN
\* or MOUSEMOTION event that carries it leaves the grid, generation, paused,
\* running and the viewport unchanged.
C11_IgnoredToggle ==
    [][/\ \A pos \in IgnoredPositions :
              (InControlBar(pos[2]) \/ MapsOutside(pos[1], pos[2])) =>
                  Toggled(grid, pos[1], pos[2]) = grid
       /\ \A pos \in ViewMousePositions :
              (/\ InControlBar(pos[2]) \/ MapsOutside(pos[1], pos[2])
               /\ MouseButtonDown(pos) \/ MouseMotion(pos)) =>
                  UNCHANGED <<grid, generation, paused, running, viewVars>>]_vars

\* The button pressed in a zoomed window where one tried position is inside
\* the control bar over a coordinate of the grid, and another is above the
\* bar beyond the grid's last column.
C11_Witness ==
    /\ mouse_pressed
    /\ \E p \in IgnoredPositions :
          InControlBar(p[2]) /\ ~MapsOutside(p[1], p[2])
    /\ \E q \in IgnoredPositions :
          ~InControlBar(q[2]) /\ MapsOutside(q[1], q[2])
    /\ \E pos \in ViewMousePositions :
          InControlBar(pos[2]) \/ MapsOutside(pos[1], pos[2])

-----------------------------------------------------------------------------
(* C12: the 2 x 2 block is a still life *)

\* The only ALIVE cells of g form a 2 x 2 block.
IsBlock(g, h, w) ==
    \E rc \in Cells(h, w) :
        /\ BlockCells(rc[1], rc[2]) \subseteq Cells(h, w)
        /\ AliveCells(g) = BlockCells(rc[1], rc[2])

\* C12: step() on a grid whose only ALIVE cells form a 2 x 2 block, anywhere
\* in the grid (also against an edge or in a corner), leaves the grid as it
\* is and adds 1 to generation; the grid after it being the same block, so
\* does every later step.
C12_BlockStill ==
    [][(steps' = steps + 1 /\ IsBlock(grid, height, width)) =>
           /\ grid' = grid
           /\ IsBlock(grid', height, width)
           /\ generation' = generation + 1]_vars

\* Two steps on, a block in the bottom right corner of a 3 x 5 grid.
C12_Witness ==
    /\ steps = 2 /\ generation = 2
    /\ height = 3 /\ width = 5
    /\ AliveCells(grid) = BlockCells(1, 3)

-----------------------------------------------------------------------------
(* C13: the blinker *)

Turned(o) == IF o = "row" THEN "col" ELSE "row"

\* What C13 says of a step from a grid whose only ALIVE cells are the line
\* LineCells(r, c, o): the grid changes, to the line turned about its centre,
\* and a second step gives back the grid.
BlinkerTurns(r, c, o) ==
    /\ grid' # grid
    /\ AliveCells(grid') = LineCells(r, c, Turned(o))
    /\ step_grid(grid', height, width) = grid

\* C13 as stated: at any position where the three cells are inside the grid.
C13_BlinkerAnywhere ==
    [][\A rc \in Cells(height, width), o \in {"row", "col"} :
           (/\ steps' = steps + 1
            /\ LineCells(rc[1], rc[2], o) \subseteq Cells(height, width)
            /\ AliveCells(grid) = LineCells(rc[1], rc[2], o)) =>
               BlinkerTurns(rc[1], rc[2], o)]_vars

\* C13 as amended: at any position where the 3 x 3 square around the centre
\* cell is inside the grid, so that the turned line is inside it too.
C13_BlinkerInside ==
    [][\A rc \in Cells(height, width), o \in {"row", "col"} :
           (/\ steps' = steps + 1
            /\ rc[1] - 1 >= 0 /\ rc[1] + 1 < height
            /\ rc[2] - 1 >= 0 /\ rc[2] + 1 < width
            /\ AliveCells(grid) = LineCells(rc[1], rc[2], o)) =>
               BlinkerTurns(rc[1], rc[2], o)]_vars

\* Two steps on, a line along row 1 of a 4 x 4 grid, its centre off the
\* edges.
C13_Witness ==
    /\ steps = 2
    /\ height = 4 /\ width = 4
    /\ AliveCells(grid) = LineCells(1, 2, "row")

-----------------------------------------------------------------------------
(* C14: clamp_offsets is idempotent *)

\* Offsets clamp_offsets is tried on: negative, in range, oversized.
ClampOffsets == {-40, -1, 0, 1, 23, 31, 64, 100}

\* Window sizes <<w, h>> it is tried with: the window's (as constructed or
\* as resized) and an empty one.
ClampWindows == {<<screen_width, screen_height>>, <<0, 0>>}

\* What clamp_offsets is not to change.
NotOffsets ==
    <<dimVars, simVars, cell_size, screen_width, screen_height, fps, running,
      mouse_pressed, pc>>

\* C14: for any integer offsets, also negative or oversized, any cell size
\* and any window size, clamp_offsets applied to the offsets it has left
\* leaves them again; and the events that do nothing but move an offset and
\* call it (K_RIGHT, K_DOWN) cannot change anything but offset_x and
\* offset_y.
C14_ClampIdempotent ==
    /\ \A ox \in ClampOffsets, oy \in ClampOffsets, win \in ClampWindows :
          LET once == clamp_offsets(width, height, cell_size, ox, oy,
                                    win[1], win[2])
          IN  clamp_offsets(width, height, cell_size, once.x, once.y,
                            win[1], win[2]) = once
    /\ pc = "loop" =>
          /\ ENABLED KeyRight
          /\ ENABLED KeyDown
          /\ ~ENABLED ((KeyRight \/ KeyDown) /\ NotOffsets' # NotOffsets)

\* Panned to a positive maximum offset in a resized window, where an
\* oversized offset is clamped to it.
C14_Witness ==
    /\ offset_x > 0 /\ offset_x = MaxOffsetX
    /\ screen_width = 40
    /\ clamp_offsets(width, height, cell_size, 100, -1, screen_width,
                     screen_height) = [x |-> offset_x, y |-> 0]

-----------------------------------------------------------------------------
(* C15: from a cell to the screen and back *)

\* Clamped, non-negative offset pairs of the current viewport.
ValidOffsets ==
    {[x |-> a, y |-> b] : a \in {0, offset_x, MaxOffsetX},
                          b \in {0, offset_y, MaxOffsetY}}

\* C15: for every in-bounds cell (r, c), the cell size in
\* [min_cell_size, max_cell_size] and every clamped, non-negative offset
\* pair, the screen position the renderer draws the cell at,
\* (c*cell_size - offset_x, r*cell_size - offset_y), is mapped back to (r, c)
\* by the click mapping.
C15_RoundTrip ==
    /\ cell_size \in min_cell_size .. max_cell_size
    /\ \A rc \in Cells(height, width), o \in ValidOffsets :
          LET p  == grid_to_screen(cell_size, o.x, o.y, rc[1], rc[2])
              gp == screen_to_grid(cell_size, o.x, o.y, p.x, p.y)
          IN  gp.y = rc[1] /\ gp.x = rc[2]

\* A viewport whose offset is not a multiple of the cell size: the first
\* column is cut by the window's left edge, drawn at a negative x.
C15_Witness ==
    /\ cell_size = 3 /\ offset_x % cell_size = 1
    /\ grid_to_screen(cell_size, offset_x, offset_y, 0, 0).x < 0
    /\ grid_to_screen(cell_size, offset_x, offset_y, 0, 1).x > 0

-----------------------------------------------------------------------------
(* C16: requests at a boundary *)

\* The event moves the viewport.
ViewMoved ==
    <<cell_size, offset_x, offset_y>>' # <<cell_size, offset_x, offset_y>>

\* C16: a wheel-up at max_cell_size, a wheel-down at min_cell_size, a zoom_at
\* to the current cell size, K_LEFT / K_UP at offset 0 and K_RIGHT / K_DOWN
\* at the maximum offset are handled (the event has an outcome: no error)
\* and cannot change cell_size, offset_x or offset_y.
C16_BoundaryIgnored ==
    pc = "loop" =>
        /\ cell_size = max_cell_size =>
              \A pos \in ViewMousePositions :
                  /\ ENABLED MouseWheel(1, pos)
                  /\ ~ENABLED (MouseWheel(1, pos) /\ ViewMoved)
        /\ cell_size = min_cell_size =>
              \A pos \in ViewMousePositions :
                  /\ ENABLED MouseWheel(-1, pos)
                  /\ ~ENABLED (MouseWheel(-1, pos) /\ ViewMoved)
        /\ \A f \in FocusPixels :
              ZoomAtHere(f, cell_size) =
                  {[cell_size |-> cell_size, offset_x |-> offset_x,
                    offset_y |-> offset_y]}
        /\ offset_x = 0 =>
              ENABLED KeyLeft /\ ~ENABLED (KeyLeft /\ ViewMoved)
        /\ offset_y = 0 =>
              ENABLED KeyUp /\ ~ENABLED (KeyUp /\ ViewMoved)
        /\ offset_x = MaxOffsetX =>
              ENABLED KeyRight /\ ~ENABLED (KeyRight /\ ViewMoved)
        /\ offset_y = MaxOffsetY =>
              ENABLED KeyDown /\ ~ENABLED (KeyDown /\ ViewMoved)

\* Zoomed in to max_cell_size and panned to the right end, offset_y at 0 but
\* not at its maximum: a wheel-up, K_RIGHT and K_UP are all at a boundary.
C16_Witness ==
    /\ cell_size = max_cell_size
    /\ offset_x = MaxOffsetX /\ offset_x > 0
    /\ offset_y = 0 /\ MaxOffsetY > 0

-----------------------------------------------------------------------------
(* C17: construction with a non-positive dimension *)

\* C17: constructing with height <= 0 or width <= 0 (also exactly 0) fails
\* with an error and produces no grid: no state of the simulator has a
\* zero-sized or negative-sized grid, at construction or later.
C17_InvalidDimension ==
    /\ (height <= 0 \/ width <= 0) => pc = "raised"
    /\ pc # "raised" => Cells(height, width) # {} /\ DOMAIN grid # {}

-----------------------------------------------------------------------------
(* C18: painting by dragging *)

\* The two positions map to the same cell of the grid.
SameCell(p, q) ==
    /\ MapsToCell(p[1], p[2])
    /\ MapsToCell(q[1], q[2])
    /\ screen_to_grid(cell_size, offset_x, offset_y, p[1], p[2])
           = screen_to_grid(cell_size, offset_x, offset_y, q[1], q[2])

\* C18: while the button is held, of two consecutive MOUSEMOTION samples
\* that map to the same cell only the first toggles it: the grid after both
\* is the grid the first one left.
C18_DragPaintOnce ==
    mouse_pressed =>
        \A p \in SimMousePositions, q \in SimMousePositions :
            SameCell(p, q) =>
                Toggled(Toggled(grid, p[1], p[2]), q[1], q[2])
                    = Toggled(grid, p[1], p[2])

-----------------------------------------------------------------------------
(* C19: the offsets zoom_at assigns before it clamps *)

\* k is an integer nearest to num / den (den > 0).
IsNearest(k, num, den) ==
    /\ 2 * (k * den - num) <= den
    /\ 2 * (num - k * den) <= den

\* k is num / den without its fraction, toward zero (den > 0).
IsTruncated(k, num, den) ==
    IF num >= 0
    THEN k * den <= num /\ num < (k + 1) * den
    ELSE k * den >= num /\ num > (k - 1) * den

\* num / den is an integer other than 0, and k is the integer next to it
\* toward zero.
IsOneInside(k, num, den) ==
    /\ num % den = 0
    /\ num # 0
    /\ k * den = IF num > 0 THEN num - den ELSE num + den

\* New cell sizes zoom_at is tried with: the two the wheel can ask for and
\* some further ones, within [min_cell_size, max_cell_size].
NewCellSizes ==
    {cell_size - 1, cell_size + 1, 1, 2, 5, 16, 32}
        \cap (min_cell_size .. max_cell_size)

\* C19 as stated: for every focus pixel and every other new cell size, the
\* offsets assigned before clamping are round(gridX * new_cell_size) -
\* focus_x and round(gridY * new_cell_size) - focus_y, gridX = (focus_x +
\* offset_x) / cell_size and gridY likewise with the old cell size, rounded
\* to the nearest integer (a half either way); clamp_offsets is then applied.
C19_RoundedOffsets ==
    \A f \in FocusPixels, n \in NewCellSizes :
        n # cell_size =>
            /\ \A raw \in zoom_raw(cell_size, offset_x, offset_y, f[1], f[2], n) :
                  /\ IsNearest(raw.x + f[1], (f[1] + offset_x) * n, cell_size)
                  /\ IsNearest(raw.y + f[2], (f[2] + offset_y) * n, cell_size)
            /\ ZoomAtHere(f, n) =
                  {Zoomed(n, raw) :
                      raw \in zoom_raw(cell_size, offset_x, offset_y,
                                       f[1], f[2], n)}

\* C19 as amended: the offsets assigned before clamping are
\* int(gridX * new_cell_size - focus_x) and int(gridY * new_cell_size -
\* focus_y): the difference, without its fraction, toward zero.  (Where the
\* difference is a whole number other than 0 and gridX is not exact in
\* double arithmetic, the result can also be the integer next to it toward
\* zero; this cannot happen when the new cell size is the old one plus or
\* minus 1, the requests run() makes.)  clamp_offsets is then applied.
C19_TruncatedOffsets ==
    \A f \in FocusPixels, n \in NewCellSizes :
        n # cell_size =>
            LET numx == (f[1] + offset_x) * n - f[1] * cell_size
                numy == (f[2] + offset_y) * n - f[2] * cell_size
                raws == zoom_raw(cell_size, offset_x, offset_y, f[1], f[2], n)
            IN  /\ \E raw \in raws :
                      /\ IsTruncated(raw.x, numx, cell_size)
                      /\ IsTruncated(raw.y, numy, cell_size)
                /\ \A raw \in raws :
                      /\ \/ IsTruncated(raw.x, numx, cell_size)
                         \/ /\ IsOneInside(raw.x, numx, cell_size)
                            /\ n - cell_size \notin {-1, 1}
                      /\ \/ IsTruncated(raw.y, numy, cell_size)
                         \/ /\ IsOneInside(raw.y, numy, cell_size)
                            /\ n - cell_size \notin {-1, 1}
                /\ ZoomAtHere(f, n) = {Zoomed(n, raw) : raw \in raws}

\* A panned viewport where a wheel request at some focus has a difference
\* with a fraction above one half on x (rounding would go up) and a negative
\* difference on y.
C19_Witness ==
    /\ offset_x > 0
    /\ \E f \in FocusPixels, n \in {cell_size - 1, cell_size + 1} :
          /\ n \in min_cell_size .. max_cell_size
          /\ 2 * (((f[1] + offset_x) * n - f[1] * cell_size) % cell_size)
                 > cell_size
          /\ (f[2] + offset_y) * n - f[2] * cell_size < 0

-----------------------------------------------------------------------------
(* C20: the simulation and the viewport are independent *)

\* Pan, zoom and window resize.
ViewportEvent ==
    \/ KeyLeft
    \/ KeyRight
    \/ KeyUp
    \/ KeyDown
    \/ \E y \in WheelYs : MouseWheel(y, EventMousePosition)
    \/ VideoResize(EventWindowSize)

\* Step, cell toggle, reset, clear, pause toggle and rate change.
SimulationEvent ==
    \/ Frame
    \/ MouseButtonDown(EventMousePosition)
    \/ MouseMotion(EventMousePosition)
    \/ KeyR
    \/ KeyC
    \/ KeySpace
    \/ KeyPlus
    \/ KeyMinus

\* C20: pan, zoom and resize events leave grid, generation, paused and fps
\* unchanged; step, toggle, reset, clear, pause-toggle and rate-change events
\* leave cell_size, offset_x and offset_y unchanged, so that no event changes
\* both; and paused changes only by the pause toggle, which flips it, and by
\* reset and clear, which set it.
C20_Independent ==
    [][/\ ViewportEvent => UNCHANGED <<grid, generation, paused, fps>>
       /\ SimulationEvent => UNCHANGED <<cell_size, offset_x, offset_y>>
       /\ (<<cell_size, offset_x, offset_y>>' # <<cell_size, offset_x, offset_y>>)
              => UNCHANGED <<grid, generation, paused, fps>>
       /\ (paused' # paused) => (KeySpace \/ KeyR \/ KeyC)
       /\ KeySpace => (paused' = ~paused)
       /\ (KeyR \/ KeyC) => paused']_vars

\* Running at another rate, two generations on, a cell painted, the window
\* resized, zoomed in and panned.
C20_Witness ==
    /\ ~paused /\ generation = 2 /\ fps # InitialFps /\ mouse_pressed
    /\ cell_size = 32 /\ offset_x > 0 /\ offset_y > 0
    /\ screen_width = 40

=============================================================================
